---- MODULE Spec2Model ----
(***************************************************************************)
(* A model of mangle-coverage.py: the lcov record rewriter that keeps only *)
(* the coverage attributable to unit tests.                                *)
(*                                                                         *)
(* Text is modelled structurally.  A function name, a unit qualifier and a *)
(* path component are sequences of one-character strings, so that          *)
(* startswith / replace / endswith are computed, not looked up.  A line of *)
(* a record is [tag, num, cnt, name]: "FN:num,name", "FNDA:cnt,name",      *)
(* "FNH:cnt", "DA:num,cnt", "LH:cnt", "SF:name"; any other tag is carried  *)
(* through with its fields.  Counts are integers in canonical decimal, so  *)
(* the source's  cnt != "0"  is  cnt # 0.                                  *)
(***************************************************************************)
EXTENDS Integers, Sequences, FiniteSets, TLC

VARIABLES
  tested,             \* tested_fns(): names that have a unit test
  static,             \* static_fns(): names declared static under lib/
  records,            \* recordize_info_file(): the input records
  callgraphs,         \* callgraph_files(): the .ci paths, in glob order
  cifiles,            \* contents of the .ci files, parallel to callgraphs
  ri,                 \* position of "for r in records"
  r,                  \* the record being rewritten
  fns,                \* fns_in_record(r)
  public_tested_fns,  \* the anchor list of the record / the candidates
  cg,                 \* the record's call graph (a set of edges), or None
  fi,                 \* position of "for fr in fns"
  pc,                 \* where the program stands
  out,                \* the records printed so far
  erased,             \* history: the calls made of erase_function_from_record
  query               \* history: the last call of nothing_calls_fn

vars == <<tested, static, records, callgraphs, cifiles, ri, r, fns,
          public_tested_fns, cg, fi, pc, out, erased, query>>

(***************************************************************************)
(* String literals of the source, as character sequences.                  *)
(***************************************************************************)
S_pcmk__ ==
  <<"p","c","m","k","_","_">>
S_pcmk_ ==
  <<"p","c","m","k","_">>
S_crm_exit_name ==
  <<"c","r","m","_","e","x","i","t","_","n","a","m","e">>
S_crm_exit_str ==
  <<"c","r","m","_","e","x","i","t","_","s","t","r">>
S_pcmk__add_separated_word ==
  <<"p","c","m","k","_","_","a","d","d","_","s","e","p","a","r","a","t","e","d","_","w","o","r","d">>
S_pcmk__ends_with_ext ==
  <<"p","c","m","k","_","_","e","n","d","s","_","w","i","t","h","_","e","x","t">>
S_pcmk__strcase_any_of ==
  <<"p","c","m","k","_","_","s","t","r","c","a","s","e","_","a","n","y","_","o","f">>
S_pcmk_rc2exitc ==
  <<"p","c","m","k","_","r","c","2","e","x","i","t","c">>
S_pcmk_rc_name ==
  <<"p","c","m","k","_","r","c","_","n","a","m","e">>
S_pcmk_rc_str ==
  <<"p","c","m","k","_","r","c","_","s","t","r">>
S_pcmk__starts_with ==
  <<"p","c","m","k","_","_","s","t","a","r","t","s","_","w","i","t","h">>
S_ends_with ==
  <<"e","n","d","s","_","w","i","t","h">>
S_pcmk__str_hash ==
  <<"p","c","m","k","_","_","s","t","r","_","h","a","s","h">>
S_pcmk__strcase_equal ==
  <<"p","c","m","k","_","_","s","t","r","c","a","s","e","_","e","q","u","a","l">>
S_pcmk__strcase_hash ==
  <<"p","c","m","k","_","_","s","t","r","c","a","s","e","_","h","a","s","h">>
S_copy_str_table_entry ==
  <<"c","o","p","y","_","s","t","r","_","t","a","b","l","e","_","e","n","t","r","y">>
S_pe__cmp_rsc_priority ==
  <<"p","e","_","_","c","m","p","_","r","s","c","_","p","r","i","o","r","i","t","y">>
S_resource_node_score ==
  <<"r","e","s","o","u","r","c","e","_","n","o","d","e","_","s","c","o","r","e">>
S___indirect_call ==
  <<"_","_","i","n","d","i","r","e","c","t","_","c","a","l","l">>

(***************************************************************************)
(* Names the bounded inputs are drawn from.                                *)
(***************************************************************************)
S_helper ==
  <<"h","e","l","p","e","r">>
S_pub ==
  <<"p","u","b">>
S_pcmk__foo ==
  <<"p","c","m","k","_","_","f","o","o">>
S_pcmk_foo ==
  <<"p","c","m","k","_","f","o","o">>
S_free ==
  <<"f","r","e","e">>

(***************************************************************************)
(* str.startswith, str.endswith, str.removeprefix, str.replace(old,new,1)  *)
(***************************************************************************)
startswith(s, p) == Len(s) >= Len(p) /\ SubSeq(s, 1, Len(p)) = p

endswith(s, p) == Len(s) >= Len(p) /\ SubSeq(s, Len(s) - Len(p) + 1, Len(s)) = p

removeprefix(s, p) == IF startswith(s, p) THEN SubSeq(s, Len(p) + 1, Len(s)) ELSE s

\* The positions at which old occurs in s.
occurrences(s, old) ==
  {i \in 1..(Len(s) - Len(old) + 1) : SubSeq(s, i, i + Len(old) - 1) = old}

\* s.replace(old, new, 1): the leftmost occurrence only.
replace_first(s, old, new) ==
  IF occurrences(s, old) = {} THEN s
  ELSE LET i == CHOOSE k \in occurrences(s, old) :
                  \A j \in occurrences(s, old) : k <= j
       IN SubSeq(s, 1, i - 1) \o new \o SubSeq(s, i + Len(old), Len(s))

(***************************************************************************)
(* Lines of a record.                                                      *)
(***************************************************************************)
None == <<>>
Some(n) == <<n>>

Line(tag, num, cnt, name) == [tag |-> tag, num |-> num, cnt |-> cnt, name |-> name]
SF(path) == Line("SF", 0, 0, path)
FN(line_no, fn) == Line("FN", line_no, 0, fn)
FNDA(cnt, fn) == Line("FNDA", 0, cnt, fn)
FNF(cnt) == Line("FNF", 0, cnt, <<>>)
FNH(cnt) == Line("FNH", 0, cnt, <<>>)
DA(line_no, cnt) == Line("DA", line_no, cnt, <<>>)
LF(cnt) == Line("LF", 0, cnt, <<>>)
LH(cnt) == Line("LH", 0, cnt, <<>>)

FnRecord(name, start, end) == [name |-> name, start |-> start, end |-> end]

\* "FNDA:<cnt>,<name>" ends with ",<fn>" exactly when <name> = fn: neither a
\* count nor a C identifier holds a comma.
is_fnda_line_for_fn(line, fn) == line.tag = "FNDA" /\ line.name = fn

is_line_in_fn(line, start, end) ==
  /\ line.tag = "DA"
  /\ line.num >= start
  /\ (end = None \/ line.num <= end[1])

is_static_fn(lst, fn) == fn \in lst

private_fn_with_tested_public(lst, fn) ==
  startswith(fn, S_pcmk__) /\ replace_first(fn, S_pcmk__, S_pcmk_) \in lst

RECURSIVE source_file_from(_, _)
source_file_from(record, i) ==
  IF i > Len(record) THEN None
  ELSE IF record[i].tag # "SF" THEN source_file_from(record, i + 1)
  ELSE Some(record[i].name)

source_file(record) == source_file_from(record, 1)

\* The names tested_fns() always adds to those of the *_test.c files.
tested_extras ==
  {S_crm_exit_name, S_crm_exit_str, S_pcmk__add_separated_word,
   S_pcmk__ends_with_ext, S_pcmk__strcase_any_of, S_pcmk_rc2exitc,
   S_pcmk_rc_name, S_pcmk_rc_str}

\* test_files: the names of the *_test.c files, suffix removed.
tested_fns(test_files) == test_files \cup tested_extras

(***************************************************************************)
(* fns_in_record                                                           *)
(***************************************************************************)
is_fn_line(line) == line.tag = "FN"

\* First pass: every end is None.
first_pass(record) ==
  LET fnlines == SelectSeq(record, is_fn_line)
  IN [i \in 1..Len(fnlines) |-> FnRecord(fnlines[i].name, fnlines[i].num, None)]

\* span_end without the "- 1".
span_end_next_start(next_start) == Some(next_start)

span_end(next_start) == Some(next_start - 1)

\* Second pass: every span but the last ends where the next one starts, less 1.
fns_in_record(record) ==
  LET tuples == first_pass(record)
  IN [i \in 1..Len(tuples) |->
        IF i <= Len(tuples) - 1
        THEN [tuples[i] EXCEPT !.end = span_end(tuples[i + 1].start)]
        ELSE tuples[i]]

(***************************************************************************)
(* fn_executed                                                             *)
(***************************************************************************)
RECURSIVE fn_executed_from(_, _, _)
fn_executed_from(record, fn, i) ==
  IF i > Len(record) THEN FALSE
  ELSE IF ~is_fnda_line_for_fn(record[i], fn) THEN fn_executed_from(record, fn, i + 1)
  ELSE record[i].cnt # 0

\* fn_executed without the test of the count.
fn_executed_has_line(record, fn) ==
  \E i \in 1..Len(record) : is_fnda_line_for_fn(record[i], fn)

fn_executed(record, fn) == fn_executed_from(record, fn, 1)

(***************************************************************************)
(* erase_function_from_record                                              *)
(***************************************************************************)
fns_hit_after(cnt) == cnt - 1

\* line_was_executed without the test of the count.
line_was_executed_always(cnt) == TRUE

line_was_executed(cnt) == cnt # 0

\* lines_hit_after without the old total.
lines_hit_after_forgot_total(cnt, executed_lines) == executed_lines

lines_hit_after(cnt, executed_lines) == cnt - executed_lines

RECURSIVE erase_loop(_, _, _, _, _)
erase_loop(record, fr, i, new_lines, executed_lines) ==
  IF i > Len(record) THEN new_lines
  ELSE LET line == record[i] IN
    IF is_fnda_line_for_fn(line, fr.name)
    THEN erase_loop(record, fr, i + 1, Append(new_lines, FNDA(0, fr.name)),
                    executed_lines)
    ELSE IF line.tag = "FNH"
    THEN erase_loop(record, fr, i + 1,
                    Append(new_lines, FNH(fns_hit_after(line.cnt))),
                    executed_lines)
    ELSE IF is_line_in_fn(line, fr.start, fr.end)
    THEN erase_loop(record, fr, i + 1, Append(new_lines, DA(line.num, 0)),
                    IF line_was_executed(line.cnt)
                    THEN executed_lines + 1 ELSE executed_lines)
    ELSE IF line.tag = "LH"
    THEN erase_loop(record, fr, i + 1,
                    Append(new_lines, LH(lines_hit_after(line.cnt, executed_lines))),
                    executed_lines)
    ELSE erase_loop(record, fr, i + 1, Append(new_lines, line), executed_lines)

erase_function_from_record(record, fr) == erase_loop(record, fr, 1, <<>>, 0)

(***************************************************************************)
(* Call graphs.  A .ci file is a set of lines [kind, src, dest]; kind is   *)
(* "edge" for a line that starts with "edge:" and carries both names;      *)
(* src and dest are the names split at ":" (<<unit, name>> or <<name>>).   *)
(* A graph is the set of its edges <<src, dest>>; as with nx.DiGraph       *)
(* filled by add_edge alone, its nodes are the endpoints of its edges.     *)
(***************************************************************************)
CiLine(kind, src, dest) == [kind |-> kind, src |-> src, dest |-> dest]

\* name.split(":")[1] when the name holds a ":", the name itself otherwise.
strip_unit(parts) == IF Len(parts) > 1 THEN parts[2] ELSE parts[1]

\* The test is made on the target as written, before the unit is trimmed.
is_indirect_call(dest) == dest = <<S___indirect_call>>

build_call_graph(file) ==
  {<<strip_unit(l.src), strip_unit(l.dest)>> :
     l \in {x \in file : x.kind = "edge" /\ ~is_indirect_call(x.dest)}}

nodes(G) == {e[1] : e \in G} \cup {e[2] : e \in G}

RECURSIVE descendants(_, _)
descendants(G, seen) ==
  LET nxt == seen \cup {e[2] : e \in {x \in G : x[1] \in seen}}
  IN IF nxt = seen THEN seen ELSE descendants(G, nxt)

\* nx.has_path raises NodeNotFound when either end is no node of the graph.
NodeNotFound(G, source, target) == source \notin nodes(G) \/ target \notin nodes(G)

\* has_path as "source calls target": one edge, no longer path.
has_path_direct(G, source, target) == <<source, target>> \in G

\* has_path without the path of length 0.
has_path_proper(G, source, target) ==
  target \in descendants(G, {e[2] : e \in {x \in G : x[1] = source}})

\* nx.has_path on nodes of the graph: a path of length >= 0.
has_path(G, source, target) == target \in descendants(G, {source})

ignored_starts_with(c_name, fn) ==
  /\ c_name = S_pcmk__starts_with
  /\ fn \in {S_ends_with, S_pcmk__str_hash, S_pcmk__strcase_equal,
             S_pcmk__strcase_hash, S_copy_str_table_entry}

ignored_cmp_rsc_priority(c_name, fn) ==
  c_name = S_pe__cmp_rsc_priority /\ fn = S_resource_node_score

\* The except clause as a bare "continue".
ignored_lookup_failure_any(c_name, fn) == TRUE

\* The two "continue" branches of the except clause.
ignored_lookup_failure(c_name, fn) ==
  ignored_starts_with(c_name, fn) \/ ignored_cmp_rsc_priority(c_name, fn)

\* The result of a call: retval when it returns, raised when NodeNotFound
\* leaves it, ignored = the (candidate, fn) pairs whose failure was skipped.
RECURSIVE nothing_calls_fn_from(_, _, _, _)
nothing_calls_fn_from(callgraph, candidates, fn, i) ==
  IF i > Len(candidates)
  THEN [retval |-> TRUE, raised |-> FALSE, ignored |-> {}]
  ELSE LET c == candidates[i] IN
    IF NodeNotFound(callgraph, c.name, fn)
    THEN IF ignored_lookup_failure(c.name, fn)
         THEN LET rest == nothing_calls_fn_from(callgraph, candidates, fn, i + 1)
              IN [rest EXCEPT !.ignored = @ \cup {<<c.name, fn>>}]
         ELSE [retval |-> TRUE, raised |-> TRUE, ignored |-> {}]
    ELSE IF has_path(callgraph, c.name, fn)
         THEN [retval |-> FALSE, raised |-> FALSE, ignored |-> {}]
         ELSE nothing_calls_fn_from(callgraph, candidates, fn, i + 1)

nothing_calls_fn(callgraph, candidates, fn) ==
  nothing_calls_fn_from(callgraph, candidates, fn, 1)

(***************************************************************************)
(* Paths.  A path is a sequence of components, "/" one of them; a file     *)
(* name ends with its extension as one component.                          *)
(***************************************************************************)
Cwd == <<"/", "w">>

Extensions == {".c", ".h", ".ci"}

remove_source_dir(s) == removeprefix(s, Cwd \o <<"/">>)

last_slash(p) ==
  IF \E i \in 1..Len(p) : p[i] = "/"
  THEN CHOOSE i \in 1..Len(p) : p[i] = "/" /\ \A j \in (i + 1)..Len(p) : p[j] # "/"
  ELSE 0

\* os.path.split: <<head, tail>> around the last "/".
os_path_split(p) ==
  LET k == last_slash(p)
  IN <<IF k = 1 THEN <<"/">> ELSE SubSeq(p, 1, k - 1), SubSeq(p, k + 1, Len(p))>>

\* os.path.splitext: <<root, ext>>.
os_path_splitext(name) ==
  IF Len(name) > 1 /\ name[Len(name)] \in Extensions
  THEN <<SubSeq(name, 1, Len(name) - 1), <<name[Len(name)]>>>>
  ELSE <<name, <<>>>>

cg_matches(f, file_name) ==
  LET filePath == os_path_split(file_name)[1]
      fileFileName == os_path_split(file_name)[2]
      cgPath == os_path_split(f)[1]
      cgFileName == os_path_split(f)[2]
      fileBase == os_path_splitext(fileFileName)[1]
  IN filePath = cgPath /\ endswith(cgFileName, <<"-">> \o fileBase \o <<".ci">>)

\* The position in callgraphs of the first match, or None.
find_callgraph_file(cgs, file_name) ==
  LET hits == {i \in 1..Len(cgs) : cg_matches(cgs[i], file_name)}
  IN IF hits = {} THEN None
     ELSE Some(CHOOSE i \in hits : \A j \in hits : i <= j)

(***************************************************************************)
(* Bounded inputs.                                                         *)
(***************************************************************************)
MaxFns == 3
MaxEdges == 3
MaxAnchors == 2
MaxErasures == 3

\* Sequences without repetition, of at most n elements of S.
DistinctSeqs(S, n) ==
  UNION {{f \in [1..k -> S] : \A i, j \in 1..k : i # j => f[i] # f[j]} : k \in 0..n}

AtMost(S, n) == {x \in SUBSET S : Cardinality(x) <= n}

Hits(counts) == Cardinality({i \in DOMAIN counts : counts[i] # 0})

\* A record in lcov's layout: SF, the FN lines, the FNDA lines, FNF, FNH,
\* the DA lines, LF, LH, with FNH and LH the counts lcov writes.
MakeRecord(path, names, starts, fcounts, dlines, dcounts) ==
  <<SF(path)>>
  \o [i \in 1..Len(names) |-> FN(starts[i], names[i])]
  \o [i \in 1..Len(names) |-> FNDA(fcounts[i], names[i])]
  \o <<FNF(Len(names)), FNH(Hits(fcounts))>>
  \o [i \in 1..Len(dlines) |-> DA(dlines[i], dcounts[i])]
  \o <<LF(Len(dlines)), LH(Hits(dcounts))>>

PathA == Cwd \o <<"/", "lib", "/", "a", ".c">>
PathB == Cwd \o <<"/", "lib", "/", "b", ".c">>
CgA == <<"lib", "/", "libx_la", "-", "a", ".ci">>
CgB == <<"lib", "/", "libx_la", "-", "b", ".ci">>

\* Records for the rewriter alone: functions f, ff, fff, ... whose FN lines
\* start at any of three lines, in any order, executed or not; three DA
\* lines, hit or not.
RewriteName(k) == [j \in 1..k |-> "f"]

StartLines == {10, 20, 30}

DaLines == <<12, 22, 32>>

RewriteRecord(n, st, fc, dc) ==
  MakeRecord(PathA, [i \in 1..n |-> RewriteName(i)], st, fc, DaLines, dc)

\* Records for the whole run: some of helper, pub and pcmk__foo declared in
\* any order at lines 10, 20, 30; each executed or not, its one DA line hit
\* exactly when it was executed.
MainNames == {S_helper, S_pub, S_pcmk__foo}

MainRecord(path, names, fc) ==
  MakeRecord(path, names, [i \in 1..Len(names) |-> 10 * i], fc,
             [i \in 1..Len(names) |-> 10 * i + 2],
             [i \in 1..Len(names) |-> IF fc[i] # 0 THEN 1 ELSE 0])

MainRecords ==
  UNION {{MainRecord(PathA, names, fc) : fc \in [1..Len(names) -> {0, 3}]}
         : names \in DistinctSeqs(MainNames, MaxFns) \ {<<>>}}

RecordB == MainRecord(PathB, <<S_pub>>, <<3>>)

MainCiLines ==
  {CiLine("edge", <<S_pub>>, <<S_helper>>),
   CiLine("edge", <<S_pcmk__foo>>, <<S_helper>>),
   CiLine("edge", <<S_pub>>, <<S_free>>),
   CiLine("edge", <<<<"a", ".", "c">>, S_helper>>, <<S_free>>),
   CiLine("edge", <<S_pcmk__foo>>, <<S_pub>>)}

FileB == {CiLine("edge", <<S_pub>>, <<S_free>>)}

\* Inputs of the reachability oracle alone.
OracleNames == {S_pub, S_helper, S_pcmk__starts_with, S_ends_with}

OracleCiLines ==
  {CiLine("edge", <<S_pub>>, <<S_helper>>),
   CiLine("edge", <<S_helper>>, <<S_pcmk__starts_with>>),
   CiLine("edge", <<S_pcmk__starts_with>>, <<S_pub>>),
   CiLine("edge", <<S_helper>>, <<S_ends_with>>),
   CiLine("edge", <<<<"a", ".", "c">>, S_pub>>, <<<<"a", ".", "c">>, S_helper>>),
   CiLine("edge", <<S_pub>>, <<S___indirect_call>>),
   CiLine("edge", <<S_pub>>, <<<<"a", ".", "c">>, S___indirect_call>>),
   CiLine("edge", <<S_pcmk__starts_with>>, <<S_ends_with>>),
   CiLine("node", <<S_pub>>, <<S_pub>>)}

NoQuery == [fn |-> <<>>, called |-> FALSE, retval |-> FALSE, raised |-> FALSE,
            ignored |-> {}]

Asked(fn, res) == [fn |-> fn, called |-> TRUE, retval |-> res.retval,
                   raised |-> res.raised, ignored |-> res.ignored]

\* What the history keeps of one call of erase_function_from_record.
fnda_count(record, fn) ==
  IF \E i \in 1..Len(record) : is_fnda_line_for_fn(record[i], fn)
  THEN record[CHOOSE i \in 1..Len(record) :
                /\ is_fnda_line_for_fn(record[i], fn)
                /\ \A j \in 1..(i - 1) : ~is_fnda_line_for_fn(record[j], fn)].cnt
  ELSE 0

tag_count(record, tag) ==
  record[CHOOSE i \in 1..Len(record) : record[i].tag = tag].cnt

\* fnda: the function's FNDA count when erased; dfnh, dlh: what the call
\* took off FNH and LH.
ErasedEntry(i, fr, before, after) ==
  [rec |-> i, fr |-> fr, fnda |-> fnda_count(before, fr.name),
   dfnh |-> tag_count(before, "FNH") - tag_count(after, "FNH"),
   dlh |-> tag_count(before, "LH") - tag_count(after, "LH")]

(***************************************************************************)
(* The run: __main__.                                                      *)
(***************************************************************************)
Init ==
  /\ tested \in {tested_fns(t) : t \in SUBSET {S_pub, S_pcmk_foo}}
  /\ static \in SUBSET {S_helper, S_pcmk__foo}
  /\ \E ra \in MainRecords, fa \in AtMost(MainCiLines, MaxEdges),
        hasA \in BOOLEAN, hasB \in BOOLEAN :
       /\ records = IF hasB THEN <<ra, RecordB>> ELSE <<ra>>
       /\ callgraphs = (IF hasB THEN <<CgB>> ELSE <<>>)
                       \o (IF hasA THEN <<CgA>> ELSE <<>>)
       /\ cifiles = (IF hasB THEN <<FileB>> ELSE <<>>)
                    \o (IF hasA THEN <<fa>> ELSE <<>>)
       /\ (~hasA => fa = {})
  /\ ri = 1
  /\ r = <<>>
  /\ fns = <<>>
  /\ public_tested_fns = <<>>
  /\ cg = None
  /\ fi = 0
  /\ pc = "next"
  /\ out = <<>>
  /\ erased = {}
  /\ query = NoQuery

file_name_of(record) == remove_source_dir(source_file(record)[1])

initial_anchors(tuples) ==
  SelectSeq(tuples, LAMBDA f : f.name \in tested /\ ~is_static_fn(static, f.name))

\* Lines 373-382 with a call graph found: the record's loop is entered.
BeginRecord ==
  /\ pc = "next" /\ ri <= Len(records)
  /\ find_callgraph_file(callgraphs, file_name_of(records[ri])) # None
  /\ r' = records[ri]
  /\ fns' = fns_in_record(records[ri])
  /\ public_tested_fns' = initial_anchors(fns_in_record(records[ri]))
  /\ cg' = build_call_graph(
             cifiles[find_callgraph_file(callgraphs, file_name_of(records[ri]))[1]])
  /\ fi' = 1
  /\ pc' = "fns"
  /\ UNCHANGED <<tested, static, records, callgraphs, cifiles, ri, out, erased, query>>

\* Lines 373-380 with no call graph: cg is bound to the None that
\* find_callgraph_file returned, then "continue", past the print of line 414.
SkipRecord ==
  /\ pc = "next" /\ ri <= Len(records)
  /\ find_callgraph_file(callgraphs, file_name_of(records[ri])) = None
  /\ r' = records[ri]
  /\ fns' = fns_in_record(records[ri])
  /\ public_tested_fns' = initial_anchors(fns_in_record(records[ri]))
  /\ cg' = None
  /\ ri' = ri + 1
  /\ UNCHANGED <<tested, static, records, callgraphs, cifiles, fi, pc, out,
                 erased, query>>

InLoop == pc = "fns" /\ fi <= Len(fns)

\* Lines 386-387.
NotExecuted ==
  /\ InLoop
  /\ ~fn_executed(r, fns[fi].name)
  /\ fi' = fi + 1
  /\ UNCHANGED <<tested, static, records, callgraphs, cifiles, ri, r, fns,
                 public_tested_fns, cg, pc, out, erased, query>>

\* Lines 392-397.
PrivateWithTestedPublic ==
  /\ InLoop
  /\ fn_executed(r, fns[fi].name)
  /\ private_fn_with_tested_public(tested, fns[fi].name)
  /\ public_tested_fns' = Append(public_tested_fns, fns[fi])
  /\ fi' = fi + 1
  /\ UNCHANGED <<tested, static, records, callgraphs, cifiles, ri, r, fns, cg, pc,
                 out, erased, query>>

AtStatic ==
  /\ InLoop
  /\ fn_executed(r, fns[fi].name)
  /\ ~private_fn_with_tested_public(tested, fns[fi].name)
  /\ is_static_fn(static, fns[fi].name)

\* Lines 403-407, nothing_calls_fn returning True: the coverage is erased.
StaticErased ==
  /\ AtStatic
  /\ LET res == nothing_calls_fn(cg, public_tested_fns, fns[fi].name) IN
       /\ ~res.raised /\ res.retval
       /\ query' = Asked(fns[fi].name, res)
  /\ r' = erase_function_from_record(r, fns[fi])
  /\ erased' = erased \cup {ErasedEntry(ri, fns[fi], r,
                                          erase_function_from_record(r, fns[fi]))}
  /\ fi' = fi + 1
  /\ UNCHANGED <<tested, static, records, callgraphs, cifiles, ri, fns,
                 public_tested_fns, cg, pc, out>>

\* Lines 403-407, nothing_calls_fn returning False: the coverage is kept.
StaticKept ==
  /\ AtStatic
  /\ LET res == nothing_calls_fn(cg, public_tested_fns, fns[fi].name) IN
       /\ ~res.raised /\ ~res.retval
       /\ query' = Asked(fns[fi].name, res)
  /\ fi' = fi + 1
  /\ UNCHANGED <<tested, static, records, callgraphs, cifiles, ri, r, fns,
                 public_tested_fns, cg, pc, out, erased>>

\* Line 404, nothing_calls_fn raising NodeNotFound: the run ends there.
StaticRaised ==
  /\ AtStatic
  /\ LET res == nothing_calls_fn(cg, public_tested_fns, fns[fi].name) IN
       /\ res.raised
       /\ query' = Asked(fns[fi].name, res)
  /\ pc' = "error"
  /\ UNCHANGED <<tested, static, records, callgraphs, cifiles, ri, r, fns,
                 public_tested_fns, cg, fi, out, erased>>

AtPublic ==
  /\ InLoop
  /\ fn_executed(r, fns[fi].name)
  /\ ~private_fn_with_tested_public(tested, fns[fi].name)
  /\ ~is_static_fn(static, fns[fi].name)

\* Lines 411-412, the name is not tested: the coverage is erased.
PublicErased ==
  /\ AtPublic
  /\ fns[fi].name \notin tested
  /\ r' = erase_function_from_record(r, fns[fi])
  /\ erased' = erased \cup {ErasedEntry(ri, fns[fi], r,
                                          erase_function_from_record(r, fns[fi]))}
  /\ fi' = fi + 1
  /\ UNCHANGED <<tested, static, records, callgraphs, cifiles, ri, fns,
                 public_tested_fns, cg, pc, out, query>>

\* Line 411, the name is tested: nothing to do.
PublicKept ==
  /\ AtPublic
  /\ fns[fi].name \in tested
  /\ fi' = fi + 1
  /\ UNCHANGED <<tested, static, records, callgraphs, cifiles, ri, r, fns,
                 public_tested_fns, cg, pc, out, erased, query>>

\* Line 414: the loop over fns is over, the record is printed.
PrintRecord ==
  /\ pc = "fns" /\ fi > Len(fns)
  /\ out' = Append(out, r)
  /\ ri' = ri + 1
  /\ pc' = "next"
  /\ UNCHANGED <<tested, static, records, callgraphs, cifiles, r, fns,
                 public_tested_fns, cg, fi, erased, query>>

\* The loop over records is over: the program ends.
Exit ==
  /\ pc = "next" /\ ri > Len(records)
  /\ pc' = "done"
  /\ UNCHANGED <<tested, static, records, callgraphs, cifiles, ri, r, fns,
                 public_tested_fns, cg, fi, out, erased, query>>

Next ==
  \/ BeginRecord
  \/ SkipRecord
  \/ NotExecuted
  \/ PrivateWithTestedPublic
  \/ StaticErased
  \/ StaticKept
  \/ StaticRaised
  \/ PublicErased
  \/ PublicKept
  \/ PrintRecord
  \/ Exit

Spec == Init /\ [][Next]_vars

(***************************************************************************)
(* The reachability oracle alone: a .ci file of at most MaxEdges lines is  *)
(* read, then nothing_calls_fn is asked about one target with a list of at *)
(* most MaxAnchors candidates.                                             *)
(***************************************************************************)
OracleInit ==
  /\ tested = {}
  /\ static = {}
  /\ records = <<>>
  /\ callgraphs = <<CgA>>
  /\ \E f \in AtMost(OracleCiLines, MaxEdges) : cifiles = <<f>>
  /\ ri = 0
  /\ r = <<>>
  /\ fns = <<>>
  /\ \E names \in DistinctSeqs(OracleNames, MaxAnchors) :
       public_tested_fns = [i \in 1..Len(names) |-> FnRecord(names[i], 10 * i, None)]
  /\ cg = {}
  /\ fi = 0
  /\ pc = "build"
  /\ out = <<>>
  /\ erased = {}
  /\ \E fn \in OracleNames : query = [NoQuery EXCEPT !.fn = fn]

OracleBuild ==
  /\ pc = "build"
  /\ cg' = build_call_graph(cifiles[1])
  /\ pc' = "ask"
  /\ UNCHANGED <<tested, static, records, callgraphs, cifiles, ri, r, fns,
                 public_tested_fns, fi, out, erased, query>>

OracleAsk ==
  /\ pc = "ask"
  /\ query' = Asked(query.fn, nothing_calls_fn(cg, public_tested_fns, query.fn))
  /\ pc' = "asked"
  /\ UNCHANGED <<tested, static, records, callgraphs, cifiles, ri, r, fns,
                 public_tested_fns, cg, fi, out, erased>>

OracleNext == OracleBuild \/ OracleAsk

SpecOracle == OracleInit /\ [][OracleNext]_vars

(***************************************************************************)
(* The rewriter alone: the spans of one record are extracted, then         *)
(* functions are erased in any order.  In SpecRewrite a function is erased *)
(* only while it counts as executed, as in the loop of __main__; in        *)
(* SpecReErase erase_function_from_record is also applied to a function    *)
(* whose FNDA count is 0, until FNH is MaxErasures below 0.                *)
(***************************************************************************)
RewriteInit ==
  /\ tested = {}
  /\ static = {}
  /\ \E n \in 1..MaxFns :
       \E st \in [1..n -> StartLines], fc \in [1..n -> {0, 3}],
          dc \in [1..Len(DaLines) -> {0, 1}] :
         /\ records = <<RewriteRecord(n, st, fc, dc)>>
         /\ r = RewriteRecord(n, st, fc, dc)
  /\ callgraphs = <<>>
  /\ cifiles = <<>>
  /\ ri = 1
  /\ fns = <<>>
  /\ public_tested_fns = <<>>
  /\ cg = {}
  /\ fi = 0
  /\ pc = "extract"
  /\ out = <<>>
  /\ erased = {}
  /\ query = NoQuery

Extract ==
  /\ pc = "extract"
  /\ fns' = fns_in_record(r)
  /\ pc' = "erase"
  /\ UNCHANGED <<tested, static, records, callgraphs, cifiles, ri, r,
                 public_tested_fns, cg, fi, out, erased, query>>

Erase(k) ==
  /\ r' = erase_function_from_record(r, fns[k])
  /\ erased' = erased \cup {ErasedEntry(ri, fns[k], r,
                                          erase_function_from_record(r, fns[k]))}
  /\ UNCHANGED <<tested, static, records, callgraphs, cifiles, ri, fns,
                 public_tested_fns, cg, fi, pc, out, query>>

EraseExecuted ==
  /\ pc = "erase"
  /\ \E k \in 1..Len(fns) : fn_executed(r, fns[k].name) /\ Erase(k)

EraseNotExecuted ==
  /\ pc = "erase"
  /\ tag_count(r, "FNH") + MaxErasures > 0
  /\ \E k \in 1..Len(fns) : ~fn_executed(r, fns[k].name) /\ Erase(k)

RewriteNext == Extract \/ EraseExecuted

SpecRewrite == RewriteInit /\ [][RewriteNext]_vars

ReEraseNext == Extract \/ EraseExecuted \/ EraseNotExecuted

SpecReErase == RewriteInit /\ [][ReEraseNext]_vars

(***************************************************************************)
(* Properties.  They are stated with their own readings of a record and of *)
(* a graph, not with the operators of the program above.                   *)
(***************************************************************************)
NonzeroLines(record, tag) ==
  Cardinality({i \in 1..Len(record) : record[i].tag = tag /\ record[i].cnt # 0})

Accurate(record) ==
  /\ tag_count(record, "FNH") = NonzeroLines(record, "FNDA")
  /\ tag_count(record, "LH") = NonzeroLines(record, "DA")

RECURSIVE PathWithin(_, _, _, _)
PathWithin(G, a, b, n) ==
  a = b \/ (n > 0 /\ \E e \in G : e[1] = a /\ PathWithin(G, e[2], b, n - 1))

\* A directed path of length >= 0 from a to b, both nodes of G.
Reaches(G, a, b) ==
  a \in nodes(G) /\ b \in nodes(G) /\ PathWithin(G, a, b, Cardinality(G))

\* The pairs (candidate, target) written in the except clause.
AllowListedPairs ==
  {<<S_pcmk__starts_with, S_ends_with>>,
   <<S_pcmk__starts_with, S_pcmk__str_hash>>,
   <<S_pcmk__starts_with, S_pcmk__strcase_equal>>,
   <<S_pcmk__starts_with, S_pcmk__strcase_hash>>,
   <<S_pcmk__starts_with, S_copy_str_table_entry>>,
   <<S_pe__cmp_rsc_priority, S_resource_node_score>>}

Anchor(i) == public_tested_fns[i].name

LookupFails(i) == Anchor(i) \notin nodes(cg) \/ query.fn \notin nodes(cg)

\* Every candidate before the i-th is looked up without a hard error.
PassedBefore(i) ==
  \A j \in 1..(i - 1) : ~LookupFails(j) \/ <<Anchor(j), query.fn>> \in AllowListedPairs

AnsweredReachable == query.called /\ ~query.raised /\ ~query.retval

NoGraphFor(i) == find_callgraph_file(callgraphs, file_name_of(records[i])) = None

GraphOf(i) ==
  build_call_graph(cifiles[find_callgraph_file(callgraphs, file_name_of(records[i]))[1]])

WasErased(i, name) == \E e \in erased : e.rec = i /\ e.fr.name = name

\* C1: when the run ends, every record without a call-graph file is in the
\* output at its input position, with exactly its input lines.
C1_PassThrough ==
  pc = "done" =>
    /\ Len(out) = Len(records)
    /\ \A i \in 1..Len(records) : NoGraphFor(i) => out[i] = records[i]

\* C2: if FNH and LH are accurate in the input record, they are accurate
\* (FNH = FNDA lines with a nonzero count, LH = DA lines with a nonzero
\* count) after any sequence of erasures of functions executed when erased.
C2_AggregatesAccurate ==
  (pc = "erase" /\ Accurate(records[1])) => Accurate(r)

\* Two erasures of an accurate record took hit lines away and left some.
C2_Witness ==
  /\ pc = "erase"
  /\ Accurate(records[1])
  /\ Cardinality(erased) >= 2
  /\ tag_count(r, "LH") < tag_count(records[1], "LH")
  /\ tag_count(r, "LH") > 0

\* C3: an executed static function is never erased when the record's call
\* graph holds a path to it from an executed proxy-named function of the
\* record (pcmk__X with pcmk_X tested), wherever that one is declared.
C3_ProxyVouches ==
  \A e \in erased :
    LET rec == records[e.rec]
        spans == fns_in_record(rec)
    IN ~(/\ e.fr.name \in static
         /\ \E p \in 1..Len(spans) :
              /\ private_fn_with_tested_public(tested, spans[p].name)
              /\ fnda_count(rec, spans[p].name) # 0
              /\ Reaches(GraphOf(e.rec), spans[p].name, e.fr.name))

\* C4 as claimed: the target is answered reachable whenever some candidate
\* has a path to it, whatever the other candidates are.
C4_AnyAnchorReaches ==
  pc = "asked" =>
    ((\E i \in 1..Len(public_tested_fns) : Reaches(cg, Anchor(i), query.fn))
       => AnsweredReachable)

\* C4 amended: the target is answered reachable whenever some candidate has
\* a path to it and every candidate before that one is a node of the graph
\* or makes an allow-listed pair with the target.
C4_AnchorReachesUnlessRaised ==
  pc = "asked" =>
    \A i \in 1..Len(public_tested_fns) :
      (Reaches(cg, Anchor(i), query.fn) /\ PassedBefore(i)) => AnsweredReachable

\* The second candidate, not the first, has a path of length >= 1 to the target.
C4_Witness ==
  /\ pc = "asked"
  /\ Len(public_tested_fns) >= 2
  /\ ~Reaches(cg, Anchor(1), query.fn)
  /\ Reaches(cg, Anchor(2), query.fn)
  /\ Anchor(2) # query.fn
  /\ <<Anchor(2), query.fn>> \notin cg
  /\ AnsweredReachable

\* C5 as claimed: a candidate asked about as the target is answered
\* reachable, for every graph and every candidate list.
C5_Reflexive ==
  pc = "asked" =>
    ((\E i \in 1..Len(public_tested_fns) : Anchor(i) = query.fn)
       => AnsweredReachable)

\* C5 amended: a candidate asked about as the target is answered reachable
\* when it is a node of the graph and every candidate before it is a node
\* of the graph or makes an allow-listed pair with it.
C5_ReflexiveOnNodes ==
  pc = "asked" =>
    \A i \in 1..Len(public_tested_fns) :
      (Anchor(i) = query.fn /\ query.fn \in nodes(cg) /\ PassedBefore(i))
        => AnsweredReachable

\* The target is a candidate and a node nothing calls: only the path of
\* length 0 reaches it.
C5_Witness ==
  /\ pc = "asked"
  /\ \E i \in 1..Len(public_tested_fns) : Anchor(i) = query.fn
  /\ query.fn \in nodes(cg)
  /\ \A e \in cg : e[2] # query.fn
  /\ AnsweredReachable

\* C6: a lookup failure is skipped only for an allow-listed pair, and any
\* other failure the loop comes to is raised; so a call that returns True
\* ("not reachable") skipped nothing outside the allow-list.
C6_OnlyAllowListedIgnored ==
  pc = "asked" =>
    /\ query.ignored \subseteq AllowListedPairs
    /\ (~query.raised /\ query.retval) =>
         \A i \in 1..Len(public_tested_fns) :
           LookupFails(i) => <<Anchor(i), query.fn>> \in AllowListedPairs
    /\ query.raised <=>
         \E i \in 1..Len(public_tested_fns) :
           /\ LookupFails(i)
           /\ <<Anchor(i), query.fn>> \notin AllowListedPairs
           /\ \A j \in 1..(i - 1) : ~Reaches(cg, Anchor(j), query.fn)

\* "Not reachable" was returned after an allow-listed failure was skipped.
C6_Witness ==
  /\ pc = "asked"
  /\ ~query.raised /\ query.retval
  /\ query.ignored # {}

\* C7: erase_function_from_record applied to a function whose FNDA count
\* is 0 leaves FNH and LH as they were.
C7_EraseIdempotent ==
  \A e \in erased : e.fnda = 0 => (e.dfnh = 0 /\ e.dlh = 0)

\* C8: of the functions the loop is done with, an executed one that is
\* neither proxy-named nor static was erased exactly when its name is not
\* tested; and no function was passed to erase with an FNDA count of 0.
C8_PublicDecision ==
  /\ pc \in {"fns", "error"} =>
       \A k \in 1..(fi - 1) :
         (/\ fnda_count(records[ri], fns[k].name) # 0
          /\ ~private_fn_with_tested_public(tested, fns[k].name)
          /\ fns[k].name \notin static)
           => (WasErased(ri, fns[k].name) <=> fns[k].name \notin tested)
  /\ \A e \in erased : e.fnda # 0

\* A record's loop is over: an untested public function was erased, a
\* tested one was kept, and one function had not been executed.
C8_Witness ==
  /\ pc = "fns" /\ fi > Len(fns)
  /\ \E a, b, c \in 1..Len(fns) :
       /\ fns[a].name \notin static /\ fns[a].name \notin tested
       /\ WasErased(ri, fns[a].name)
       /\ fns[b].name \notin static /\ fns[b].name \in tested
       /\ fnda_count(records[ri], fns[b].name) # 0
       /\ ~WasErased(ri, fns[b].name)
       /\ fnda_count(records[ri], fns[c].name) = 0

FnLinesOf(record) == SelectSeq(record, LAMBDA l : l.tag = "FN")

\* One span per FN line, in their order, each ending one line before the
\* next starts and the last one open.
SpansFollowFnLines ==
  LET fl == FnLinesOf(records[1]) IN
    /\ Len(fns) = Len(fl)
    /\ \A i \in 1..Len(fns) :
         /\ fns[i].name = fl[i].name
         /\ fns[i].start = fl[i].num
         /\ fns[i].end = IF i < Len(fns) THEN Some(fl[i + 1].num - 1) ELSE None

\* The ranges [start, end] of a and b share a line: the later start is not
\* past either end.
Overlap(a, b) ==
  LET lo == IF a.start >= b.start THEN a.start ELSE b.start
  IN (a.end = None \/ lo <= a.end[1]) /\ (b.end = None \/ lo <= b.end[1])

NoOverlap == \A i, j \in 1..Len(fns) : i # j => ~Overlap(fns[i], fns[j])

Ascending == \A i \in 1..(Len(fns) - 1) : fns[i].start <= fns[i + 1].start

\* C9 as claimed: for every record the spans follow the FN lines and the
\* ranges of two spans never overlap.
C9_SpansNeverOverlap ==
  pc = "erase" => (SpansFollowFnLines /\ NoOverlap)

\* C9 amended: for every record the spans follow the FN lines; the ranges
\* of two spans do not overlap when the FN lines come in non-decreasing
\* order of their start line.
C9_SpansOfOrderedFnLines ==
  pc = "erase" => (SpansFollowFnLines /\ (Ascending => NoOverlap))

\* Three spans were extracted from FN lines in ascending order.
C9_Witness ==
  /\ pc = "erase"
  /\ Len(fns) = 3
  /\ fns[1].start < fns[2].start /\ fns[2].start < fns[3].start

\* C10: erasing f then g gives the same record (FNH, LH, FNDA and DA lines)
\* as erasing g then f, for any two distinct functions of a record.
C10_EraseCommutes ==
  pc = "erase" =>
    LET once == [j \in 1..Len(fns) |-> erase_function_from_record(r, fns[j])]
    IN \A j, k \in 1..Len(fns) :
         j < k => erase_function_from_record(once[j], fns[k])
                    = erase_function_from_record(once[k], fns[j])

\* Two executed functions, one with more hit lines than the other, can
\* both still be erased.
C10_Witness ==
  /\ pc = "erase"
  /\ \E j, k \in 1..Len(fns) :
       /\ j # k
       /\ fn_executed(r, fns[j].name) /\ fn_executed(r, fns[k].name)
       /\ tag_count(erase_function_from_record(r, fns[j]), "LH")
            < tag_count(erase_function_from_record(r, fns[k]), "LH")
       /\ tag_count(erase_function_from_record(r, fns[k]), "LH") < tag_count(r, "LH")

====
